---- MODULE Spec2Model ----
(***************************************************************************)
(* Model of map_filter1.py: main -> create_iit_map -> load_iit_data,       *)
(* create_feature_group, add_iit_markers (create_popup_html per row),      *)
(* map_obj.save.  Text is a sequence of code points; a data row is a       *)
(* function from the column headers present in the sheet to cell values.   *)
(***************************************************************************)
EXTENDS Integers, Sequences, FiniteSets, TLC

\* ---------------------------------------------------------------- bounds
MaxRows == 3        \* rows in the spreadsheet
MaxMissing == 1     \* column headers absent from the spreadsheet
MaxLen == 3         \* length of an image reference given to create_popup_html

\* ------------------------------------------------------------ text, quote
RECURSIVE Concat(_)
Concat(ss) == IF ss = <<>> THEN <<>> ELSE Head(ss) \o Concat(Tail(ss))

Range(s) == {s[k] : k \in 1..Len(s)}

\* urllib.parse.quote never escapes these: letters, digits, "_.-~"
AlwaysSafe == (65..90) \cup (97..122) \cup (48..57) \cup {95, 46, 45, 126}

\* the default of quote(), safe='/': what the call would keep without its argument
SafeDefault == {47}

\* safe=':/?=' at the call in create_popup_html
Safe == {58, 47, 63, 61}

\* str.encode('utf-8') of one code point (below 65536)
Utf8(c) ==
    IF c < 128 THEN <<c>>
    ELSE IF c < 2048 THEN <<192 + (c \div 64), 128 + (c % 64)>>
    ELSE <<224 + (c \div 4096), 128 + ((c \div 64) % 64), 128 + (c % 64)>>

HexDigit(d) == IF d < 10 THEN 48 + d ELSE 55 + d

\* '%XX' with upper-case hexadecimal digits
PercentByte(b) == <<37, HexDigit(b \div 16), HexDigit(b % 16)>>

QuoteChar(c) ==
    IF c \in AlwaysSafe \cup Safe
    THEN <<c>>
    ELSE Concat([k \in 1..Len(Utf8(c)) |-> PercentByte(Utf8(c)[k])])

quote(s) == Concat([k \in 1..Len(s) |-> QuoteChar(s[k])])

\* ------------------------------------------------------------------ sheet
Required ==
    {"IIT College", "IIT Ranking", "NIRF Score", "Image", "Latitude", "Longitude"}

\* the headers a loaded sheet may carry: at most MaxMissing of Required absent
ColumnSets == {cs \in SUBSET Required : Cardinality(Required \ cs) <= MaxMissing}

\* a coordinate cell: a number, an empty cell (NaN), a text that is no number
CoordCells == {"12.5", "nan", "abc"}

\* the image reference of a loaded row: "a b"
ImageRefs == {<<97, 32, 98>>}

MkRow(k, lat, lon, img, cs) ==
    [c \in cs |->
        CASE c = "IIT College" -> k
          [] c = "IIT Ranking" -> "1"
          [] c = "NIRF Score"  -> "80.5"
          [] c = "Image"       -> img
          [] c = "Latitude"    -> lat
          [] c = "Longitude"   -> lon]

\* the cells of one row that vary: latitude, longitude, image reference
Cells == CoordCells \X CoordCells \X ImageRefs

\* the DataFrame of a sheet with headers cs whose k-th row has the cells f[k]
DataFrame(n, f, cs) == [k \in 1..n |-> MkRow(k, f[k][1], f[k][2], f[k][3], cs)]

\* ------------------------------------------------------------- exceptions
NoError == [type |-> "none", msg |-> ""]

ExcelNotFound == [type |-> "FileNotFoundError", msg |-> "Excel file not found at: iit_data.xlsx"]

ExcelReadError == [type |-> "Exception", msg |-> "Error reading Excel file"]

GeoNotFound == [type |-> "FileNotFoundError", msg |-> "GeoJSON file not found at: india_states.json"]

GeoError == [type |-> "Exception", msg |-> "Error creating feature group"]

NameKeyError == [type |-> "KeyError", msg |-> "IIT College"]

WriteError == [type |-> "OSError", msg |-> "final12.html"]

\* ------------------------------------------------------------------ state
VARIABLES
    srcFile,    \* iit_data.xlsx on disk: "ok", "missing", "corrupt"
    geoFile,    \* india_states.json on disk: "ok", "missing", "badenc", "badjson", "nonjson"
    writable,   \* whether final12.html can be written
    pc,         \* position in main / create_iit_map
    data,       \* the DataFrame returned by load_iit_data, as a sequence of rows
    fg,         \* children of the FeatureGroup, in the order they were added
    map_obj,    \* children of the folium.Map, in the order they were added
    i,          \* rows of data whose loop iteration has completed
    popup,      \* the last popup html built by create_popup_html
    err,        \* the exception leaving create_iit_map, NoError if none
    outFile,    \* final12.html: whether it exists and the children saved in it
    stdout,     \* lines printed, in order
    stages      \* the stages of create_iit_map that have started, in order

vars ==
    <<srcFile, geoFile, writable, pc, data, fg, map_obj, i, popup, err, outFile,
      stdout, stages>>

SrcFiles == {"ok", "missing", "corrupt"}

GeoFiles == {"ok", "missing", "badenc", "badjson", "nonjson"}

NoPopup == [name |-> 0, rank |-> "", score |-> "", img |-> <<>>]

NoFile == [exists |-> FALSE, children |-> <<>>]

\* ------------------------------------------------------- load_iit_data
\* what pd.read_excel(file_path, engine="openpyxl") raises
read_excel(file) ==
    CASE file = "missing" -> "FileNotFoundError"
      [] file = "corrupt" -> "BadZipFile"
      [] file = "ok"      -> "none"

load_iit_data_swallow(file) == NoError

load_iit_data(file) ==
    IF read_excel(file) = "none" THEN NoError
    ELSE IF read_excel(file) = "FileNotFoundError" THEN ExcelNotFound
    ELSE ExcelReadError

\* ------------------------------------------------ create_feature_group
\* what the try body raises: open() on a missing file; f.read() on bytes that
\* are not UTF-8; folium.GeoJson(data=text), which parses text that starts with
\* '[' or '{' as JSON and opens any other text as a file name
geo_body(file) ==
    CASE file = "missing" -> "FileNotFoundError"
      [] file = "badenc"  -> "UnicodeDecodeError"
      [] file = "badjson" -> "JSONDecodeError"
      [] file = "nonjson" -> "FileNotFoundError"
      [] file = "ok"      -> "none"

create_feature_group(file) ==
    IF geo_body(file) = "none" THEN NoError
    ELSE IF geo_body(file) = "FileNotFoundError" THEN GeoNotFound
    ELSE GeoError

GeoJsonChild == [type |-> "GeoJson"]

add_child_front(children, c) == <<c>> \o children

add_child_twice(children, c) == Append(Append(children, c), c)

add_child(children, c) == Append(children, c)

\* --------------------------------------------------- create_popup_html
PopupColumns == {"Image", "IIT College", "IIT Ranking", "NIRF Score"}

create_popup_html(row) ==
    [name  |-> row["IIT College"],
     rank  |-> row["IIT Ranking"],
     score |-> row["NIRF Score"],
     img   |-> quote(row["Image"])]

\* ----------------------------------------------------- add_iit_markers
\* folium's validate_location without its NaN and float() checks
validate_location_lax(lat, lon) == TRUE

\* folium.Marker rejects a coordinate that float() cannot convert or that is NaN
validate_location(lat, lon) == lat \notin {"nan", "abc"} /\ lon \notin {"nan", "abc"}

\* the exception the try body of one iteration raises, "none" if it adds a marker
TryBody(row) ==
    IF ~(PopupColumns \subseteq DOMAIN row) THEN "KeyError"
    ELSE IF ~({"Latitude", "Longitude"} \subseteq DOMAIN row) THEN "KeyError"
    ELSE IF ~validate_location(row["Latitude"], row["Longitude"]) THEN "ValueError"
    ELSE "none"

Marker(row) ==
    [type     |-> "Marker",
     location |-> <<row["Latitude"], row["Longitude"]>>,
     popup    |-> create_popup_html(row),
     icon     |-> "red university fa"]

MarkerErrorLine(row) == [line |-> "Error adding marker for", arg |-> row["IIT College"]]

\* add_iit_markers as a function: the children of fg when it returns or raises
RECURSIVE add_iit_markers(_, _)
add_iit_markers(children, d) ==
    IF d = <<>> THEN children
    ELSE IF TryBody(Head(d)) = "none"
    THEN add_iit_markers(add_child(children, Marker(Head(d))), Tail(d))
    ELSE IF "IIT College" \in DOMAIN Head(d)
    THEN add_iit_markers(children, Tail(d))
    ELSE children

Markers(children) == SelectSeq(children, LAMBDA c : c.type = "Marker")

\* --------------------------------------------------------------- actions
Init ==
    /\ srcFile \in SrcFiles
    /\ geoFile \in GeoFiles
    /\ writable \in BOOLEAN
    /\ pc = "load"
    /\ data = <<>>
    /\ fg = <<>>
    /\ map_obj = <<>>
    /\ i = 0
    /\ popup = NoPopup
    /\ err = NoError
    /\ outFile = NoFile
    /\ stdout = <<>>
    /\ stages = <<>>

\* create_iit_map: data = load_iit_data(data_file)
Load ==
    /\ pc = "load"
    /\ stages' = Append(stages, "load")
    /\ IF load_iit_data(srcFile) = NoError
       THEN /\ \E cs \in ColumnSets, n \in 0..MaxRows :
                 \E f \in [1..n -> Cells] : data' = DataFrame(n, f, cs)
            /\ pc' = "overlay"
            /\ err' = err
       ELSE /\ err' = load_iit_data(srcFile)
            /\ pc' = "raised"
            /\ data' = data
    /\ UNCHANGED <<srcFile, geoFile, writable, fg, map_obj, i, popup, outFile, stdout>>

\* create_iit_map: fg = create_feature_group(geojson_file)
BuildOverlay ==
    /\ pc = "overlay"
    /\ stages' = Append(stages, "overlay")
    /\ IF create_feature_group(geoFile) = NoError
       THEN /\ fg' = add_child(<<>>, GeoJsonChild)
            /\ pc' = "canvas"
            /\ err' = err
       ELSE /\ err' = create_feature_group(geoFile)
            /\ pc' = "raised"
            /\ fg' = fg
    /\ UNCHANGED <<srcFile, geoFile, writable, data, map_obj, i, popup, outFile, stdout>>

\* create_iit_map: map_obj = folium.Map(...)
CreateMap ==
    /\ pc = "canvas"
    /\ stages' = Append(stages, "canvas")
    /\ map_obj' = <<"TileLayer">>
    /\ pc' = "style"
    /\ UNCHANGED <<srcFile, geoFile, writable, data, fg, i, popup, err, outFile, stdout>>

\* the styling step of a create_iit_map that leaves out the call of add_iit_markers
InjectCssSkipMarkers ==
    /\ pc = "style"
    /\ stages' = Append(stages, "style")
    /\ map_obj' = add_child(map_obj, "css")
    /\ pc' = "attach"
    /\ UNCHANGED <<srcFile, geoFile, writable, data, fg, i, popup, err, outFile, stdout>>

\* create_iit_map: map_obj.get_root().html.add_child(folium.Element(css))
InjectCss ==
    /\ pc = "style"
    /\ stages' = Append(stages, "style")
    /\ map_obj' = add_child(map_obj, "css")
    /\ pc' = "call_markers"
    /\ UNCHANGED <<srcFile, geoFile, writable, data, fg, i, popup, err, outFile, stdout>>

\* create_iit_map: add_iit_markers(fg, data) is entered
CallAddMarkers ==
    /\ pc = "call_markers"
    /\ stages' = Append(stages, "markers")
    /\ i' = 0
    /\ pc' = "markers"
    /\ UNCHANGED <<srcFile, geoFile, writable, data, fg, map_obj, popup, err, outFile, stdout>>

\* add_iit_markers: one iteration of the loop over data.iterrows()
MarkerIteration ==
    /\ pc = "markers"
    /\ i < Len(data)
    /\ LET row == data[i + 1] IN
        /\ popup' = IF PopupColumns \subseteq DOMAIN row
                    THEN create_popup_html(row) ELSE popup
        /\ IF TryBody(row) = "none"
           THEN /\ fg' = add_child(fg, Marker(row))
                /\ i' = i + 1
                /\ UNCHANGED <<stdout, err, pc>>
           ELSE IF "IIT College" \in DOMAIN row
           THEN /\ stdout' = Append(stdout, MarkerErrorLine(row))
                /\ i' = i + 1
                /\ UNCHANGED <<fg, err, pc>>
           ELSE /\ err' = NameKeyError
                /\ pc' = "raised"
                /\ UNCHANGED <<fg, i, stdout>>
    /\ UNCHANGED <<srcFile, geoFile, writable, data, map_obj, outFile, stages>>

\* add_iit_markers: the loop is exhausted and the function returns
MarkersReturn ==
    /\ pc = "markers"
    /\ i = Len(data)
    /\ pc' = "attach"
    /\ UNCHANGED <<srcFile, geoFile, writable, data, fg, map_obj, i, popup, err, outFile,
                   stdout, stages>>

\* create_iit_map: map_obj.add_child(fg)
AttachGroup ==
    /\ pc = "attach"
    /\ stages' = Append(stages, "attach")
    /\ map_obj' = add_child(map_obj, "fg")
    /\ pc' = "save"
    /\ UNCHANGED <<srcFile, geoFile, writable, data, fg, i, popup, err, outFile, stdout>>

\* create_iit_map: map_obj.save(output_file)
Save ==
    /\ pc = "save"
    /\ stages' = Append(stages, "save")
    /\ IF writable
       THEN /\ outFile' = [exists |-> TRUE, children |-> fg]
            /\ pc' = "returned"
            /\ err' = err
       ELSE /\ err' = WriteError
            /\ pc' = "raised"
            /\ outFile' = outFile
    /\ UNCHANGED <<srcFile, geoFile, writable, data, fg, map_obj, i, popup, stdout>>

SuccessLines == <<[line |-> "Map created successfully! Open", arg |-> "final12.html"]>>

FailureLines(e) ==
    <<[line |-> "Error creating map:", arg |-> e.msg],
      [line |-> "Please ensure:", arg |-> "1. 2. 3."]>>

\* a handler "except FileNotFoundError" in place of "except Exception"
MainCatchesNotFound(e) == e.type = "FileNotFoundError"

\* main: "except Exception as e" catches every exception create_iit_map raises
MainCatches(e) == e.type \in {"FileNotFoundError", "Exception", "KeyError", "OSError"}

\* main: create_iit_map returned, the confirmation is printed
MainSuccess ==
    /\ pc = "returned"
    /\ stdout' = stdout \o SuccessLines
    /\ pc' = "done"
    /\ UNCHANGED <<srcFile, geoFile, writable, data, fg, map_obj, i, popup, err, outFile,
                   stages>>

\* main: create_iit_map raised
MainExcept ==
    /\ pc = "raised"
    /\ IF MainCatches(err)
       THEN /\ stdout' = stdout \o FailureLines(err)
            /\ pc' = "done"
       ELSE /\ pc' = "crashed"
            /\ stdout' = stdout
    /\ UNCHANGED <<srcFile, geoFile, writable, data, fg, map_obj, i, popup, err, outFile,
                   stages>>

Next ==
    \/ Load
    \/ BuildOverlay
    \/ CreateMap
    \/ InjectCss
    \/ CallAddMarkers
    \/ MarkerIteration
    \/ MarkersReturn
    \/ AttachGroup
    \/ Save
    \/ MainSuccess
    \/ MainExcept

Spec == Init /\ [][Next]_vars

\* ------------------------------------- create_popup_html on its own
\* characters of the image references tried: a space : / ? = " < > % ~ e-acute euro
Alphabet == {97, 32, 58, 47, 63, 61, 34, 60, 62, 37, 126, 233, 8364}

\* http://x/a b.png
Example == <<104, 116, 116, 112, 58, 47, 47, 120, 47, 97, 32, 98, 46, 112, 110, 103>>

\* http://x/a%20b.png
ExampleEncoded ==
    <<104, 116, 116, 112, 58, 47, 47, 120, 47, 97, 37, 50, 48, 98, 46, 112, 110, 103>>

Strings == UNION {[1..n -> Alphabet] : n \in 0..MaxLen}

InitPopup ==
    /\ srcFile = "ok"
    /\ geoFile = "ok"
    /\ writable = TRUE
    /\ pc = "popup"
    /\ \E img \in Strings \cup {Example} :
         data = <<MkRow(1, "12.5", "12.5", img, Required)>>
    /\ fg = <<>>
    /\ map_obj = <<>>
    /\ i = 0
    /\ popup = NoPopup
    /\ err = NoError
    /\ outFile = NoFile
    /\ stdout = <<>>
    /\ stages = <<>>

\* add_iit_markers: html=create_popup_html(row)
PopupCall ==
    /\ pc = "popup"
    /\ popup' = create_popup_html(data[1])
    /\ pc' = "popup_done"
    /\ UNCHANGED <<srcFile, geoFile, writable, data, fg, map_obj, i, err, outFile, stdout,
                   stages>>

NextPopup == PopupCall

SpecPopup == InitPopup /\ [][NextPopup]_vars

\* ------------------------------------------------------------ properties
\* add_iit_markers has been entered and has returned or raised
MarkersEnded == "markers" \in Range(stages) /\ pc # "markers"

\* both coordinate columns are present and both cells are numbers
CoordOk(row) ==
    /\ {"Latitude", "Longitude"} \subseteq DOMAIN row
    /\ row["Latitude"] = "12.5"
    /\ row["Longitude"] = "12.5"

\* the row has all required fields with valid types
Composes(row) == DOMAIN row = Required /\ CoordOk(row)

\* the marker a row is to yield: its position verbatim, its popup from its fields
ExpectedMarker(row) ==
    [type     |-> "Marker",
     location |-> <<row["Latitude"], row["Longitude"]>>,
     popup    |-> [name  |-> row["IIT College"], rank |-> row["IIT Ranking"],
                   score |-> row["NIRF Score"], img |-> <<97, 37, 50, 48, 98>>],
     icon     |-> "red university fa"]

ExpectedMarkers(d) ==
    [k \in 1..Len(SelectSeq(d, Composes)) |-> ExpectedMarker(SelectSeq(d, Composes)[k])]

RemoveAt(d, k) == SubSeq(d, 1, k - 1) \o SubSeq(d, k + 1, Len(d))

BadCoordRows == {k \in 1..Len(data) : ~CoordOk(data[k])}

MarkerErrorLines == SelectSeq(stdout, LAMBDA l : l.line = "Error adding marker for")

MainLines == SelectSeq(stdout, LAMBDA l : l.line # "Error adding marker for")

\* C1: once add_iit_markers is over, it has not raised, it has processed every
\* row of the dataset, and it has printed one diagnostic, naming the record,
\* for each row whose marker could not be composed, in row order.
C1_BadRowNeverAborts ==
    MarkersEnded =>
        /\ err # NameKeyError
        /\ i = Len(data)
        /\ Len(MarkerErrorLines) = Len(SelectSeq(data, LAMBDA r : ~Composes(r)))

\* C2: a finished run whose spreadsheet and boundary file parse and whose output
\* path is writable has written the output file, with the boundary overlay in
\* it, and with no marker when no row composes.
C2_RunCompletes ==
    (pc = "done" /\ srcFile = "ok" /\ geoFile = "ok" /\ writable) =>
        /\ outFile.exists
        /\ outFile.children # <<>>
        /\ outFile.children[1] = GeoJsonChild
        /\ (\A k \in 1..Len(data) : ~Composes(data[k])) => Markers(outFile.children) = <<>>

C4_MarkerCount ==
    /\ Len(Markers(fg)) <= i
    /\ \A a, b \in 1..Len(Markers(fg)) : a # b => Markers(fg)[a] # Markers(fg)[b]
    /\ (MarkersEnded /\ \A k \in 1..Len(data) : Composes(data[k])) =>
         Len(Markers(fg)) = Len(data)

C4_Witness ==
    /\ pc = "attach"
    /\ Len(data) >= 2
    /\ \A k \in 1..Len(data) : Composes(data[k])
    /\ Len(Markers(fg)) = Len(data)

\* C5: the feature group holds the boundary overlay first and then, in dataset
\* order, the markers of exactly those rows processed so far that composed.
C5_DatasetOrder ==
    /\ fg # <<>> =>
         /\ fg[1] = GeoJsonChild
         /\ \A k \in 2..Len(fg) : fg[k].type = "Marker"
    /\ Markers(fg) = ExpectedMarkers(SubSeq(data, 1, i))

C5_Witness ==
    /\ pc = "attach"
    /\ Len(data) = 3
    /\ ~Composes(data[2])
    /\ Len(fg) = 3
    /\ fg[2].popup.name = 1
    /\ fg[3].popup.name = 3

C7_TwoKinds ==
    /\ (pc \in {"raised", "done"} /\ stages = <<"load">>) =>
         /\ srcFile = "missing" => err = ExcelNotFound
         /\ srcFile # "missing" => err = ExcelReadError
    /\ (pc \in {"raised", "done"} /\ stages = <<"load", "overlay">>) =>
         /\ geoFile = "missing" => err = GeoNotFound
         /\ geoFile # "missing" => err = GeoError

\* the characters the claim lets through: letters, digits, "_.-~" and ":/?="
KeptChars == (65..90) \cup (97..122) \cup (48..57) \cup {95, 46, 45, 126, 58, 47, 63, 61}

HexVal(c) == IF c \in 48..57 THEN c - 48 ELSE c - 55

\* the bytes a percent-encoded text stands for
RECURSIVE PercentDecode(_)
PercentDecode(s) ==
    IF s = <<>> THEN <<>>
    ELSE IF s[1] = 37 /\ Len(s) >= 3
    THEN <<16 * HexVal(s[2]) + HexVal(s[3])>> \o PercentDecode(SubSeq(s, 4, Len(s)))
    ELSE <<s[1]>> \o PercentDecode(Tail(s))

\* the code points a UTF-8 byte sequence stands for
RECURSIVE Utf8Decode(_)
Utf8Decode(b) ==
    IF b = <<>> THEN <<>>
    ELSE IF b[1] >= 224 /\ Len(b) >= 3
    THEN <<(b[1] - 224) * 4096 + (b[2] - 128) * 64 + (b[3] - 128)>>
         \o Utf8Decode(SubSeq(b, 4, Len(b)))
    ELSE IF b[1] >= 192 /\ Len(b) >= 2
    THEN <<(b[1] - 192) * 64 + (b[2] - 128)>> \o Utf8Decode(SubSeq(b, 3, Len(b)))
    ELSE <<b[1]>> \o Utf8Decode(Tail(b))

\* the length of the encoding: one per kept character, three per byte of any other
RECURSIVE EncodedLen(_)
EncodedLen(s) ==
    IF s = <<>> THEN 0
    ELSE (IF Head(s) \in KeptChars THEN 1
          ELSE IF Head(s) < 128 THEN 3 ELSE IF Head(s) < 2048 THEN 6 ELSE 9)
         + EncodedLen(Tail(s))

\* C8: the image source of the popup consists of kept characters and percent
\* escapes only, holds no space, double quote, '<' or '>', decodes back to the
\* image reference, escapes no kept character and every other one, and is
\* http://x/a%20b.png for http://x/a b.png.
C8_ImageUrlEncoded ==
    pc = "popup_done" =>
        /\ Range(popup.img) \subseteq KeptChars \cup {37}
        /\ Range(popup.img) \cap {32, 34, 60, 62} = {}
        /\ Utf8Decode(PercentDecode(popup.img)) = data[1]["Image"]
        /\ Len(popup.img) = EncodedLen(data[1]["Image"])
        /\ data[1]["Image"] = Example => popup.img = ExampleEncoded

C8_Witness ==
    /\ pc = "popup_done"
    /\ data[1]["Image"] = Example
    /\ popup.img = ExampleEncoded

\* C9: main never lets an exception escape, and a finished run has printed
\* either the confirmation naming the output path alone, when create_iit_map
\* returned, or the error followed by the checklist alone, when it raised.
C9_OneOutcome ==
    /\ pc # "crashed"
    /\ pc \notin {"done", "crashed"} => MainLines = <<>>
    /\ pc = "done" =>
         \/ /\ err = NoError
            /\ outFile.exists
            /\ MainLines = <<[line |-> "Map created successfully! Open", arg |-> "final12.html"]>>
         \/ /\ err # NoError
            /\ MainLines = <<[line |-> "Error creating map:", arg |-> err.msg],
                             [line |-> "Please ensure:", arg |-> "1. 2. 3."]>>

C9_Witness ==
    /\ pc = "done"
    /\ err = NameKeyError
    /\ Len(MainLines) = 2

IsPrefix(s, t) == Len(s) <= Len(t) /\ s = SubSeq(t, 1, Len(s))

\* the order of the stages as the claim has it
ClaimedOrder == <<"load", "overlay", "markers", "canvas", "style", "attach", "save">>

\* the order of the stages in create_iit_map
CodeOrder == <<"load", "overlay", "canvas", "style", "markers", "attach", "save">>

\* the stage at which an exception leaves create_iit_map
StageOf(e) ==
    CASE e \in {ExcelNotFound, ExcelReadError} -> "load"
      [] e \in {GeoNotFound, GeoError}         -> "overlay"
      [] e = NameKeyError                      -> "markers"
      [] e = WriteError                        -> "save"

\* C10 as stated: the stages start in the order Load, Build Overlay, Compose
\* Markers, Assemble (canvas, styling, attach), Serialize.
C10_ClaimedOrder == IsPrefix(stages, ClaimedOrder)

\* C10 as amended: the stages start in the order Load, Build Overlay, create
\* the canvas, inject the styling, Compose Markers, attach, Serialize, each at
\* most once and none skipped, and once a stage has failed it is the last
\* stage to have started.
C10_ForwardPass ==
    /\ IsPrefix(stages, CodeOrder)
    /\ err # NoError => stages # <<>> /\ stages[Len(stages)] = StageOf(err)
    /\ pc \in {"returned"} => stages = CodeOrder

C10_Witness ==
    /\ pc = "done"
    /\ stages = CodeOrder
    /\ err = NoError

====
